---- MODULE Spec2Model ----
(***************************************************************************)
(* A model of parse.py: the paginated laptop listing walk, the browser-    *)
(* driven resolution of per-configuration prices, and the CSV writer.      *)
(*                                                                         *)
(* Markup is modelled by what the code reads from it.  A text is a         *)
(* sequence of chunks: " " is whitespace, "0".."9" are digits, every other *)
(* chunk is some non-numeric, non-blank piece of text.  An optional value  *)
(* (a select_one result, an attribute, the global driver) is the empty     *)
(* sequence (None) or a one-element sequence.                              *)
(***************************************************************************)
EXTENDS Integers, Sequences, FiniteSets, TLC

VARIABLES
    pc,            \* position of the run
    error,         \* name of the exception that is propagating, or NoError
    _driver,       \* the global driver reference (line 35)
    browser,       \* the browser session: open?, current url, displayed price
    fetchLog,      \* the requests.get calls so far, with the markup each returned
    num_pages,     \* get_laptop_products: num_pages
    page_num,      \* index of the listing page being processed
    todo,          \* product cards of the current page not yet parsed
    page_products, \* the list get_single_page_products is building
    all_products,  \* get_laptop_products: all_products
    buttons,       \* parse_hdd_block_prices: buttons
    idx,           \* position of the for loop over buttons
    prices,        \* parse_hdd_block_prices: prices
    hdd_prices,    \* parse_single_product: hdd_prices
    lastEvent,     \* the last call made on the browser for the current product
    retried,       \* indices of the buttons whose click was intercepted
    clicked,       \* indices of the buttons click() was called on
    csv,           \* products.csv: None (absent) or its rows
    csv0           \* products.csv as it was before the run

vars == <<pc, error, _driver, browser, fetchLog, num_pages, page_num, todo,
          page_products, all_products, buttons, idx, prices, hdd_prices,
          lastEvent, retried, clicked, csv, csv0>>

\* ------------------------------------------------------------------ bounds
MaxPages == 3
MaxItems == 4
MaxButtons == 3
MaxRecords == 2

\* ------------------------------------------------------------- primitives
None == << >>
Some(x) == <<x>>
NoError == "none"

BASE_URL == "https://webscraper.io/"
LAPTOP_URL == <<BASE_URL, "test-sites/e-commerce/static/computers/laptops">>
PRODUCTS_OUTPUT_CSV_PATH == "products.csv"

\* urllib.parse.urljoin for a page-relative reference.
urljoin(base, ref) == <<base, ref>>

DigitChars == <<"0", "1", "2", "3", "4", "5", "6", "7", "8", "9">>
IsDigit(c) == \E i \in 1..10 : DigitChars[i] = c
DigitVal(c) == (CHOOSE i \in 1..10 : DigitChars[i] = c) - 1
IsSpace(c) == c = " "

NonBlank(s) == {i \in 1..Len(s) : ~IsSpace(s[i])}
Least(S) == CHOOSE i \in S : \A j \in S : i <= j
Greatest(S) == CHOOSE i \in S : \A j \in S : j <= i

\* str.strip()
Strip(s) ==
    IF NonBlank(s) = {} THEN << >>
    ELSE SubSeq(s, Least(NonBlank(s)), Greatest(NonBlank(s)))

\* str.replace(old, ""), old a single chunk
Remove(s, old) == SelectSeq(s, LAMBDA c : c # old)

\* str.split()[0]: the first whitespace-delimited token, None when there is none
FirstToken(s) ==
    IF NonBlank(s) = {} THEN None
    ELSE LET from == Least(NonBlank(s))
             blanks == {i \in from..Len(s) : IsSpace(s[i])}
         IN  Some(SubSeq(s, from, IF blanks = {} THEN Len(s) ELSE Least(blanks) - 1))

AllDigits(s) == \A i \in 1..Len(s) : IsDigit(s[i])

\* The number written by the first n digits of s.
RECURSIVE DecPrefix(_, _)
DecPrefix(s, n) == IF n = 0 THEN 0 ELSE 10 * DecPrefix(s, n - 1) + DigitVal(s[n])

DecValue(s) == DecPrefix(s, Len(s))

HasSign(s) == s # << >> /\ Head(s) \in {"+", "-"}
Unsigned(s) == IF HasSign(s) THEN Tail(s) ELSE s
Sign(s) == IF HasSign(s) /\ Head(s) = "-" THEN -1 ELSE 1

\* F applied to the value of x, which is evaluated once.
On(x, F(_)) == CHOOSE y \in {F(v) : v \in {x}} : TRUE

\* int(text): surrounding whitespace is ignored, an optional sign, then digits
ParseInt(s) ==
    On(Strip(s), LAMBDA t :
    On(Unsigned(t), LAMBDA d :
        IF d # << >> /\ AllDigits(d)
        THEN [ok |-> TRUE, value |-> Sign(t) * DecValue(d)]
        ELSE [ok |-> FALSE, value |-> 0]))

DropTrailingZeros(s) ==
    LET nonzero == {i \in 1..Len(s) : s[i] # "0"}
    IN  IF nonzero = {} THEN << >> ELSE SubSeq(s, 1, Greatest(nonzero))

DotAt(s) == IF \E i \in 1..Len(s) : s[i] = "."
            THEN CHOOSE i \in 1..Len(s) : s[i] = "." /\ \A j \in 1..(i - 1) : s[j] # "."
            ELSE 0

\* float(text) for decimal literals: a float is kept exactly, as its sign, its
\* whole part and its fraction digits without trailing zeros.
ParseFloat(s) ==
    On(Strip(s), LAMBDA t :
    On(Unsigned(t), LAMBDA d :
    On(DotAt(d), LAMBDA k :
    On(IF k = 0 THEN d ELSE SubSeq(d, 1, k - 1), LAMBDA w :
    On(IF k = 0 THEN << >> ELSE SubSeq(d, k + 1, Len(d)), LAMBDA f :
        IF AllDigits(w) /\ AllDigits(f) /\ (w # << >> \/ f # << >>)
        THEN [ok |-> TRUE,
              value |-> [sign |-> Sign(t), whole |-> DecValue(w),
                         frac |-> DropTrailingZeros(f)]]
        ELSE [ok |-> FALSE,
              value |-> [sign |-> 1, whole |-> 0, frac |-> << >>]])))))

\* ------------------------------------------------------------ the record
\* Product (lines 22-30): the fields in declaration order.
PRODUCT_FIELDS ==
    <<"title", "description", "price", "rating", "num_of_reviews",
      "additional_info", "url">>

Product(title, description, price, rating, num_of_reviews, additional_info, url) ==
    [title |-> title, description |-> description, price |-> price,
     rating |-> rating, num_of_reviews |-> num_of_reviews,
     additional_info |-> additional_info, url |-> url]

\* astuple, with the values taken in reverse declaration order.
astuple_reversed(product) ==
    [i \in 1..Len(PRODUCT_FIELDS) |->
        product[PRODUCT_FIELDS[Len(PRODUCT_FIELDS) + 1 - i]]]

\* dataclasses.astuple: the field values in declaration order
astuple(product) == [i \in 1..Len(PRODUCT_FIELDS) |-> product[PRODUCT_FIELDS[i]]]

\* ------------------------------------------------------ get_num_pages
Returned(v) == [ok |-> TRUE, value |-> v, error |-> NoError]
Raised(e) == [ok |-> FALSE, value |-> 0, error |-> e]

\* get_num_pages reading the last item, li[-1].
get_num_pages_last_item(page_soup) ==
    LET pagination == page_soup.pagination IN
    IF pagination = None THEN Returned(1)
    ELSE LET li == pagination[1] IN
         IF Len(li) < 1 THEN Raised("IndexError")
         ELSE LET n == ParseInt(li[Len(li)]) IN
              IF n.ok THEN Returned(n.value) ELSE Raised("ValueError")

\* get_num_pages reading the third-to-last item, li[-3].
get_num_pages_third_last(page_soup) ==
    LET pagination == page_soup.pagination IN
    IF pagination = None THEN Returned(1)
    ELSE LET li == pagination[1] IN
         IF Len(li) < 3 THEN Raised("IndexError")
         ELSE LET n == ParseInt(li[Len(li) - 2]) IN
              IF n.ok THEN Returned(n.value) ELSE Raised("ValueError")

\* get_num_pages falling back to one page when the control is not as expected.
get_num_pages_fallback(page_soup) ==
    LET pagination == page_soup.pagination IN
    IF pagination = None THEN Returned(1)
    ELSE LET li == pagination[1] IN
         IF Len(li) < 2 THEN Returned(1)
         ELSE LET n == ParseInt(li[Len(li) - 1]) IN
              IF n.ok THEN Returned(n.value) ELSE Returned(1)

\* get_num_pages (lines 100-106).  page_soup.pagination is the ".pagination"
\* element: None, or the texts of its "li" items in document order.
get_num_pages(page_soup) ==
    LET pagination == page_soup.pagination IN
    IF pagination = None THEN Returned(1)
    ELSE LET li == pagination[1] IN
         IF Len(li) < 2 THEN Raised("IndexError")
         ELSE LET n == ParseInt(li[Len(li) - 1]) IN
              IF n.ok THEN Returned(n.value) ELSE Raised("ValueError")

\* ------------------------------------------------ parse_single_product
\* The keyword arguments of Product(...) (lines 87-97), evaluated in order; the
\* first one that raises decides the exception.
FieldTitle(card) ==
    IF card.title = None THEN Raised("TypeError")
    ELSE IF card.title[1].title = None THEN Raised("KeyError")
    ELSE Returned(card.title[1].title[1])

FieldDescription(card) ==
    IF card.description = None THEN Raised("AttributeError")
    ELSE Returned(card.description[1])

FieldPrice(card) ==
    IF card.price = None THEN Raised("AttributeError")
    ELSE LET f == ParseFloat(Remove(card.price[1], "$")) IN
         IF f.ok THEN Returned(f.value) ELSE Raised("ValueError")

FieldRating(card) ==
    IF card.rating = None THEN Raised("TypeError")
    ELSE LET n == ParseInt(card.rating[1]) IN
         IF n.ok THEN Returned(n.value) ELSE Raised("ValueError")

FieldReviews(card) ==
    IF card.reviews = None THEN Raised("AttributeError")
    ELSE LET tok == FirstToken(card.reviews[1]) IN
         IF tok = None THEN Raised("IndexError")
         ELSE LET n == ParseInt(tok[1]) IN
              IF n.ok THEN Returned(n.value) ELSE Raised("ValueError")

FieldUrl(card) ==
    IF card.title = None THEN Raised("TypeError")
    ELSE IF card.title[1].href = None THEN Raised("KeyError")
    ELSE Returned(urljoin(BASE_URL, card.title[1].href[1]))

\* The part of parse_single_product after parse_hdd_block_prices returned hdd.
BuildProduct(card, hdd) ==
    LET t == FieldTitle(card)
        d == FieldDescription(card)
        p == FieldPrice(card)
        r == FieldRating(card)
        n == FieldReviews(card)
        u == FieldUrl(card)
    IN  IF ~t.ok THEN t
        ELSE IF ~d.ok THEN d
        ELSE IF ~p.ok THEN p
        ELSE IF ~r.ok THEN r
        ELSE IF ~n.ok THEN n
        ELSE IF ~u.ok THEN u
        ELSE Returned(Product(t.value, d.value, p.value, r.value, n.value,
                              [hdd_prices |-> hdd], u.value))

\* prices[key] = value on a dict
DictSet(d, key, value) ==
    [k \in (DOMAIN d) \cup {key} |-> IF k = key THEN value ELSE d[k]]

\* write_products_to_csv (lines 133-137): the rows written to the file
CsvRows(products) ==
    <<PRODUCT_FIELDS>> \o [i \in 1..Len(products) |-> astuple(products[i])]

\* ------------------------------------------------ parse_hdd_block_prices
NoEvent == [kind |-> "none", button |-> 0]
Event(kind, i) == [kind |-> kind, button |-> i]

\* Lines 58-62: the detail url, the global driver, driver.get, the ".swatches"
\* container and its buttons.  drv is the value of get_driver(), br the browser.
HddOpen(card, drv, br) ==
    IF card.title = None THEN [ok |-> FALSE, error |-> "TypeError", browser |-> br]
    ELSE IF card.title[1].href = None
    THEN [ok |-> FALSE, error |-> "KeyError", browser |-> br]
    ELSE IF drv = None
    THEN [ok |-> FALSE, error |-> "AttributeError", browser |-> br]
    ELSE IF ~br.open
    THEN [ok |-> FALSE, error |-> "InvalidSessionIdException", browser |-> br]
    ELSE LET at == [br EXCEPT !.url = Some(urljoin(BASE_URL, card.title[1].href[1])),
                              !.shown = card.price]
         IN  IF card.swatches = None
             THEN [ok |-> FALSE, error |-> "NoSuchElementException", browser |-> at]
             ELSE [ok |-> TRUE, error |-> NoError, browser |-> at]

\* Line 67 without the test of "disabled".
Activates_all(button) == TRUE

\* Line 67: the button the for loop is at is one to activate.
Activates(button) == ~button.disabled

\* Lines 77-79: the price read after the click, as a float.
ReadPrice(br) == ParseFloat(Remove(br.shown[1], "$"))

\* The index the for loop moves to after the button at i (line 66).
NextButton(i) == i + 1

\* Line 75 left out: is_clickable stays False and the while loop goes round.
AfterClick_stays == "hdd_loop"

\* Line 75: the position after a click that was not intercepted.
AfterClick == "hdd_read"

\* ------------------------------------------------------------ the listing
Page(param, pagination, cards) ==
    [url |-> LAPTOP_URL, param |-> param,
     soup |-> [pagination |-> pagination, cards |-> cards]]

\* Line 122 assigns the first page's products, line 128 extends by a later page's.
Extend(all, page, n) == IF n = 1 THEN page ELSE all \o page

\* range(2, num_pages) in place of range(2, num_pages + 1).
InRange_exclusive(n, total) == n < total

\* range(2, num_pages + 1) (line 124) still has the page index n.
InRange(n, total) == n <= total

\* main catching the failure and writing what was extracted so far.
Propagate_caught(e) == /\ error' = e
                       /\ pc' = "write"

\* What a failure inside the list comprehension of line 112 does to the run.
Propagate(e) == /\ error' = e
                /\ pc' = "raising"

\* main without the with statement: the session is left open.
Quit_never(br) == br

\* __exit__ of the webdriver context manager (line 141): the session is quit.
Quit(br) == [br EXCEPT !.open = FALSE]

\* set_driver (lines 42-44)
set_driver(new_driver) == _driver' = Some(new_driver)

\* ---------------------------------------------------------------- actions
hddVars == <<buttons, idx, prices, lastEvent, retried, clicked>>
walkVars == <<fetchLog, num_pages, page_num, todo, page_products, all_products>>

\* main, lines 141-142: a browser session is opened and installed.
MainEnter ==
    /\ pc = "main"
    /\ browser' = [open |-> TRUE, url |-> None, shown |-> None]
    /\ set_driver("chrome")
    /\ pc' = "fetch_first"
    /\ UNCHANGED <<error, walkVars, hddVars, hdd_prices, csv, csv0>>

\* get_laptop_products, lines 117-118: the first page, fetched without a parameter.
FetchFirst(Paginations, Pages) ==
    /\ pc = "fetch_first"
    /\ \E pagination \in Paginations, cards \in Pages :
          fetchLog' = Append(fetchLog, Page(None, pagination, cards))
    /\ pc' = "num_pages"
    /\ UNCHANGED <<error, _driver, browser, num_pages, page_num, todo, page_products,
                   all_products, hddVars, hdd_prices, csv, csv0>>

\* requests.get raises (lines 117, 126).
FetchFails ==
    /\ pc = "fetch_first" \/ (pc = "loop" /\ InRange(page_num, num_pages))
    /\ Propagate("ConnectionError")
    /\ UNCHANGED <<_driver, browser, walkVars, hddVars, hdd_prices, csv, csv0>>

\* Line 120, and line 110 for the first page.
GetNumPages ==
    /\ pc = "num_pages"
    /\ \E r \in {get_num_pages(fetchLog[1].soup)} :
         IF r.ok
         THEN /\ num_pages' = r.value
              /\ page_num' = 1
              /\ todo' = fetchLog[1].soup.cards
              /\ pc' = "product"
              /\ error' = error
         ELSE /\ Propagate(r.error)
              /\ UNCHANGED <<num_pages, page_num, todo>>
    /\ UNCHANGED <<_driver, browser, fetchLog, page_products, all_products, hddVars,
                   hdd_prices, csv, csv0>>

\* parse_single_product, line 85, into parse_hdd_block_prices, lines 58-64.
HddStart ==
    /\ pc = "product"
    /\ todo # << >>
    /\ \E r \in {HddOpen(Head(todo), _driver, browser)} :
         /\ browser' = r.browser
         /\ IF r.ok
            THEN /\ buttons' = Head(todo).swatches[1]
                 /\ idx' = 1
                 /\ prices' = << >>
                 /\ lastEvent' = Event("get", 0)
                 /\ pc' = "hdd_loop"
                 /\ error' = error
            ELSE /\ Propagate(r.error)
                 /\ UNCHANGED <<buttons, idx, prices, lastEvent>>
    /\ UNCHANGED <<_driver, walkVars, retried, clicked, hdd_prices, csv, csv0>>

\* Lines 66-67: a disabled button is passed over.
HddSkip ==
    /\ pc = "hdd_loop"
    /\ idx <= Len(buttons)
    /\ ~Activates(buttons[idx])
    /\ idx' = NextButton(idx)
    /\ UNCHANGED <<pc, error, _driver, browser, walkVars, buttons, prices, lastEvent,
                   retried, clicked, hdd_prices, csv, csv0>>

\* The except clause leaving the while loop: the price is read after a click
\* that was intercepted.
HddClickInterceptedGivesUp ==
    /\ pc = "hdd_loop"
    /\ idx <= Len(buttons)
    /\ Activates(buttons[idx])
    /\ lastEvent' = Event("intercepted", idx)
    /\ retried' = retried \cup {idx}
    /\ clicked' = clicked \cup {idx}
    /\ pc' = "hdd_read"
    /\ UNCHANGED <<error, _driver, browser, walkVars, buttons, idx, prices,
                   hdd_prices, csv, csv0>>

\* Lines 69-73: click() raises ElementClickInterceptedException; the loop goes round.
HddClickIntercepted ==
    /\ pc = "hdd_loop"
    /\ idx <= Len(buttons)
    /\ Activates(buttons[idx])
    /\ lastEvent' = Event("intercepted", idx)
    /\ retried' = retried \cup {idx}
    /\ clicked' = clicked \cup {idx}
    /\ UNCHANGED <<pc, error, _driver, browser, walkVars, buttons, idx, prices,
                   hdd_prices, csv, csv0>>

\* Lines 69-75: click() returns; the page now displays this option's price.
HddClickOk ==
    /\ pc = "hdd_loop"
    /\ idx <= Len(buttons)
    /\ Activates(buttons[idx])
    /\ browser' = [browser EXCEPT !.shown = Some(buttons[idx].price)]
    /\ lastEvent' = Event("clicked", idx)
    /\ clicked' = clicked \cup {idx}
    /\ pc' = AfterClick
    /\ UNCHANGED <<error, _driver, walkVars, buttons, idx, prices, retried,
                   hdd_prices, csv, csv0>>

\* Lines 77-79: the displayed price is read and recorded under the button's value.
HddRead ==
    /\ pc = "hdd_read"
    /\ \E f \in {ReadPrice(browser)} :
         IF f.ok
         THEN /\ prices' = DictSet(prices, buttons[idx].value, f.value)
              /\ idx' = NextButton(idx)
              /\ lastEvent' = Event("read", idx)
              /\ pc' = "hdd_loop"
              /\ error' = error
         ELSE /\ Propagate("ValueError")
              /\ UNCHANGED <<prices, idx, lastEvent>>
    /\ UNCHANGED <<_driver, browser, walkVars, buttons, retried, clicked, hdd_prices,
                   csv, csv0>>

\* Line 81, back into line 85.
HddReturn ==
    /\ pc = "hdd_loop"
    /\ idx > Len(buttons)
    /\ hdd_prices' = prices
    /\ pc' = "fields"
    /\ UNCHANGED <<error, _driver, browser, walkVars, hddVars, csv, csv0>>

\* Lines 87-97, and the list comprehension of line 112 taking the product.
ParseFields ==
    /\ pc = "fields"
    /\ \E r \in {BuildProduct(Head(todo), hdd_prices)} :
         IF r.ok
         THEN /\ page_products' = Append(page_products, r.value)
              /\ todo' = Tail(todo)
              /\ pc' = "product"
              /\ error' = error
         ELSE /\ Propagate(r.error)
              /\ UNCHANGED <<page_products, todo>>
    /\ buttons' = << >>
    /\ idx' = 0
    /\ prices' = << >>
    /\ hdd_prices' = << >>
    /\ lastEvent' = NoEvent
    /\ retried' = {}
    /\ clicked' = {}
    /\ UNCHANGED <<_driver, browser, fetchLog, num_pages, page_num, all_products,
                   csv, csv0>>

\* Line 112 returns the page's list; lines 122 and 128 take it.
PageDone ==
    /\ pc = "product"
    /\ todo = << >>
    /\ all_products' = Extend(all_products, page_products, page_num)
    /\ page_products' = << >>
    /\ page_num' = page_num + 1
    /\ pc' = "loop"
    /\ UNCHANGED <<error, _driver, browser, fetchLog, num_pages, todo, hddVars,
                   hdd_prices, csv, csv0>>

\* Lines 124-127 and 110: the next page, fetched with its index as "page".
FetchNext(Pages) ==
    /\ pc = "loop"
    /\ InRange(page_num, num_pages)
    /\ \E cards \in Pages :
          /\ fetchLog' = Append(fetchLog, Page(Some(page_num), None, cards))
          /\ todo' = cards
    /\ pc' = "product"
    /\ UNCHANGED <<error, _driver, browser, num_pages, page_num, page_products,
                   all_products, hddVars, hdd_prices, csv, csv0>>

\* Line 130, back into main, line 143.
ReturnProducts ==
    /\ pc = "loop"
    /\ ~InRange(page_num, num_pages)
    /\ pc' = "write"
    /\ UNCHANGED <<error, _driver, browser, walkVars, hddVars, hdd_prices, csv, csv0>>

\* write_products_to_csv, lines 133-137 (main, line 144).
WriteProductsToCsv ==
    /\ pc = "write"
    /\ csv' = Some(CsvRows(all_products))
    /\ pc' = "exit"
    /\ UNCHANGED <<error, _driver, browser, walkVars, hddVars, hdd_prices, csv0>>

\* The with statement of line 141 is left, normally or by an exception.
DriverExit ==
    /\ pc \in {"exit", "raising"}
    /\ browser' = Quit(browser)
    /\ pc' = IF error = NoError THEN "done" ELSE "failed"
    /\ UNCHANGED <<error, _driver, walkVars, hddVars, hdd_prices, csv, csv0>>

\* ----------------------------------------------------------------- inputs
Seqs(S, n) == UNION {[1..k -> S] : k \in 0..n}

\* The decimal text of a natural number.
RECURSIVE IntText(_)
IntText(n) ==
    IF n < 10 THEN <<DigitChars[n + 1]>>
    ELSE IntText(n \div 10) \o <<DigitChars[(n % 10) + 1]>>

Link(title, href) == Some([title |-> Some(title), href |-> Some(href)])

Card(title, description, price, rating, reviews, swatches) ==
    [title |-> title, description |-> description, price |-> price,
     rating |-> rating, reviews |-> reviews, swatches |-> swatches]

Btn(value, disabled, price) == [value |-> value, disabled |-> disabled, price |-> price]

PriceLow == <<"$", "9", "9", ".", "5", "0">>
PriceHigh == <<"$", "1", "2", "0">>
PriceComma == <<"$", "1", ",", "0", "9", "9">>

\* Labels a pagination item may carry.
PaginationLabels ==
    {<<"0">>, <<"1">>, <<"2">>, <<"3">>, <<"1", "0">>, <<"-", "1">>,
     <<" ", "2", " ">>, <<"»">>, << >>}

\* Every pagination control of up to MaxItems items, and none at all.
Paginations == {None} \cup {Some(li) : li \in Seqs(PaginationLabels, MaxItems)}

\* The control of a listing of n pages: "1" .. "n", then the next control.
Numbered(n) == [i \in 1..n |-> IntText(i)] \o <<<<"»">>>>

\* The controls the walk is run on: none, well-formed ones, and malformed ones.
WalkPaginations ==
    {None} \cup {Some(Numbered(n)) : n \in 0..MaxPages}
           \cup {Some(<<<<"«">>, <<"»">>>>), Some(<<<<"0">>, <<"»">>>>)}

Swatches2 == <<Btn("128", FALSE, PriceLow), Btn("256", TRUE, PriceHigh)>>
Swatches1 == <<Btn("128", FALSE, PriceHigh)>>

CardA ==
    Card(Link("A", "/product/1"), Some(<<"a">>), Some(PriceLow), Some(<<"4">>),
         Some(<<"7", " ", "reviews">>), Some(Swatches2))
CardB ==
    Card(Link("B", "/product/2"), Some(<<"b", " ", "b">>), Some(PriceHigh),
         Some(<<"1">>), Some(<<" ", "1", "2", " ", "reviews">>), Some(Swatches1))
CardNoRating == [CardA EXCEPT !.rating = None]
CardNoSwatches == [CardB EXCEPT !.swatches = None]


\* The listing pages the walk is run on: their product cards in document order.
WalkPages ==
    {<< >>, <<CardA>>, <<CardB>>, <<CardA, CardB>>, <<CardB, CardA>>,
     <<CardB, CardB, CardA>>, <<CardNoRating>>, <<CardB, CardNoRating>>,
     <<CardNoSwatches>>, <<CardA, CardNoSwatches, CardB>>}

\* The option controls a detail page may hold.
Buttons ==
    {Btn(v, d, p) : v \in {"128", "256"}, d \in BOOLEAN, p \in {PriceLow, PriceHigh}}
        \cup {Btn("512", FALSE, PriceComma)}

HddCards ==
    {[CardA EXCEPT !.swatches = Some(b)] : b \in Seqs(Buttons, MaxButtons)}
        \cup {CardNoSwatches, [CardA EXCEPT !.title = None]}

Float(whole, frac) == [sign |-> 1, whole |-> whole, frac |-> frac]

SampleProducts ==
    {Product(t, <<"d">>, Float(99, <<"5">>), r, 7, [hdd_prices |-> h],
             urljoin(BASE_URL, "/product/1")) :
        t \in {"A", "B"}, r \in {1, 5},
        h \in {[k \in {"128"} |-> Float(120, << >>)],
               [k \in {"128", "256"} |-> Float(99, <<"5">>)]}}

Collections == Seqs(SampleProducts, MaxRecords)

\* A products.csv left by an earlier run.
OldCsv == Some(<<PRODUCT_FIELDS>>)

\* ------------------------------------------------------- specifications
Idle ==
    /\ error = NoError
    /\ fetchLog = << >>
    /\ num_pages = 0
    /\ page_num = 0
    /\ todo = << >>
    /\ page_products = << >>
    /\ all_products = << >>
    /\ buttons = << >>
    /\ idx = 0
    /\ prices = << >>
    /\ hdd_prices = << >>
    /\ lastEvent = NoEvent
    /\ retried = {}
    /\ clicked = {}
    /\ csv0 \in {None, OldCsv}
    /\ csv = csv0

\* The program before main is called.
Init ==
    /\ pc = "main"
    /\ _driver = None
    /\ browser = [open |-> FALSE, url |-> None, shown |-> None]
    /\ Idle

Next ==
    \/ MainEnter
    \/ FetchFirst(WalkPaginations, WalkPages)
    \/ FetchFails
    \/ GetNumPages
    \/ HddStart
    \/ HddSkip
    \/ HddClickIntercepted
    \/ HddClickOk
    \/ HddRead
    \/ HddReturn
    \/ ParseFields
    \/ PageDone
    \/ FetchNext(WalkPages)
    \/ ReturnProducts
    \/ WriteProductsToCsv
    \/ DriverExit

Spec == Init /\ [][Next]_vars

\* Every call returns, and a click is not intercepted for ever.
Progress ==
    \/ MainEnter
    \/ FetchFirst(WalkPaginations, WalkPages)
    \/ GetNumPages
    \/ HddStart
    \/ HddSkip
    \/ HddClickOk
    \/ HddRead
    \/ HddReturn
    \/ ParseFields
    \/ PageDone
    \/ FetchNext(WalkPages)
    \/ ReturnProducts
    \/ WriteProductsToCsv
    \/ DriverExit

FairSpec == Init /\ [][Next]_vars /\ WF_vars(Progress)

Running == [open |-> TRUE, url |-> None, shown |-> None]

\* get_num_pages on the first page of any listing.
InitPages ==
    /\ pc = "fetch_first"
    /\ _driver = Some("chrome")
    /\ browser = Running
    /\ Idle

NextPages ==
    \/ FetchFirst(Paginations, {<< >>})
    \/ GetNumPages

SpecPages == InitPages /\ [][NextPages]_vars

\* parse_hdd_block_prices on one product card of the first page.
InitHdd ==
    /\ pc = "fetch_first"
    /\ _driver = Some("chrome")
    /\ browser = Running
    /\ Idle

NextHdd ==
    \/ FetchFirst({None}, {<<c>> : c \in HddCards})
    \/ GetNumPages
    \/ HddStart
    \/ HddSkip
    \/ HddClickIntercepted
    \/ HddClickOk
    \/ HddRead
    \/ HddReturn

SpecHdd == InitHdd /\ [][NextHdd]_vars

\* write_products_to_csv on any collection of records.
InitCsv ==
    /\ pc = "write"
    /\ _driver = Some("chrome")
    /\ browser = Running
    /\ error = NoError
    /\ fetchLog = << >>
    /\ num_pages = 1
    /\ page_num = 2
    /\ todo = << >>
    /\ page_products = << >>
    /\ all_products \in Collections
    /\ buttons = << >>
    /\ idx = 0
    /\ prices = << >>
    /\ hdd_prices = << >>
    /\ lastEvent = NoEvent
    /\ retried = {}
    /\ clicked = {}
    /\ csv0 \in {None, OldCsv}
    /\ csv = csv0

NextCsv == WriteProductsToCsv

SpecCsv == InitCsv /\ [][NextCsv]_vars

\* ================================================================ claims
FirstPagination == fetchLog[1].soup.pagination
Fetched == fetchLog # << >>
Items == FirstPagination[1]
\* The label of the second-to-last pagination item.
PageLabel == Items[Len(Items) - 1]

\* The mapping parse_hdd_block_prices is to build for a sequence of buttons.
RECURSIVE HddOf(_)
HddOf(bs) ==
    IF bs = << >> THEN << >>
    ELSE LET front == HddOf(SubSeq(bs, 1, Len(bs) - 1))
             b == bs[Len(bs)]
         IN  IF b.disabled THEN front
             ELSE DictSet(front, b.value, ParseFloat(Remove(b.price, "$")).value)

ProductsOf(cards) ==
    [i \in 1..Len(cards) |-> BuildProduct(cards[i], HddOf(cards[i].swatches[1])).value]

RECURSIVE Flatten(_)
Flatten(log) ==
    IF log = << >> THEN << >>
    ELSE Flatten(SubSeq(log, 1, Len(log) - 1)) \o ProductsOf(log[Len(log)].soup.cards)

RECURSIVE CardCount(_)
CardCount(log) ==
    IF log = << >> THEN 0
    ELSE CardCount(SubSeq(log, 1, Len(log) - 1)) + Len(log[Len(log)].soup.cards)

DeclaredPages ==
    IF FirstPagination = None THEN 1 ELSE ParseInt(PageLabel).value

WalkReturned == pc \in {"write", "exit", "done"}

\* C1: when the first page declares N >= 1 pages and get_laptop_products returns,
\* it has fetched exactly N pages, page 1 without a parameter and then the
\* indices 2..N in ascending order as the "page" parameter, and the returned
\* collection is the concatenation of the pages' products in page order and
\* document order, so its length is the sum of the per-page product counts.
C1_WalkFetchesEachPageOnce ==
    (WalkReturned /\ DeclaredPages >= 1) =>
        /\ Len(fetchLog) = DeclaredPages
        /\ fetchLog[1].param = None
        /\ \A i \in 2..Len(fetchLog) : fetchLog[i].param = Some(i)
        /\ \A i \in 1..Len(fetchLog) : fetchLog[i].url = LAPTOP_URL
        /\ all_products = Flatten(fetchLog)
        /\ Len(all_products) = CardCount(fetchLog)

C1_Witness ==
    /\ pc = "done"
    /\ Len(fetchLog) = 3
    /\ Len(fetchLog[2].soup.cards) = 3
    /\ Len(fetchLog[3].soup.cards) = 2
    /\ all_products[1] # all_products[2]

GotNumPages == Fetched /\ pc = "product"

\* A label that writes a positive whole number: optional blanks, an optional
\* "+", digits of which one is not "0".
IsPositiveLabel(label) ==
    LET t == Strip(label)
        d == IF t # << >> /\ Head(t) = "+" THEN Tail(t) ELSE t
    IN  /\ d # << >>
        /\ AllDigits(d)
        /\ \E i \in 1..Len(d) : d[i] # "0"

\* C2 as stated: whenever get_num_pages returns, the result is 1 for a page
\* without pagination control, the integer value of the second-to-last item's
\* label otherwise, and in every case a positive integer.
C2_Original ==
    GotNumPages =>
        /\ FirstPagination = None => num_pages = 1
        /\ FirstPagination # None => num_pages = ParseInt(PageLabel).value
        /\ num_pages >= 1

\* C2, amended: whenever get_num_pages returns, the result is 1 for a page
\* without pagination control; otherwise the control has at least two items,
\* the second-to-last item's label is an integer literal and the result is its
\* value, which is positive exactly when that label writes a positive number.
C2_NumPagesIsSecondToLastLabel ==
    /\ (Fetched /\ pc # "num_pages" /\ FirstPagination = None) =>
            (pc = "product" /\ num_pages = 1)
    /\ (GotNumPages /\ FirstPagination # None) =>
            /\ Len(Items) >= 2
            /\ ParseInt(PageLabel).ok
            /\ num_pages = ParseInt(PageLabel).value
            /\ (num_pages >= 1) <=> IsPositiveLabel(PageLabel)

C2_Witness ==
    /\ GotNumPages
    /\ FirstPagination # None
    /\ Len(Items) = 4
    /\ PageLabel = <<"1", "0">>
    /\ num_pages = 10

Items123Next == <<<<"1">>, <<"2">>, <<"3">>, <<"»">>>>

\* C3 as stated: for the four items "1", "2", "3", "»" get_num_pages returns 2.
C3_Original ==
    (Fetched /\ pc # "num_pages" /\ FirstPagination = Some(Items123Next)) =>
        (pc = "product" /\ num_pages = 2)

\* C3, amended: for the four items "1", "2", "3", "»" get_num_pages returns 3,
\* the label of the second-to-last item.
C3_FourItemsGiveThree ==
    (Fetched /\ pc # "num_pages" /\ FirstPagination = Some(Items123Next)) =>
        (pc = "product" /\ error = NoError /\ num_pages = 3)

C3_Witness ==
    /\ GotNumPages
    /\ FirstPagination = Some(Items123Next)

\* A pagination control that is present but not of the expected shape.
TooFewItems == FirstPagination # None /\ Len(Items) < 2
LabelNotANumber ==
    FirstPagination # None /\ Len(Items) >= 2 /\ ~ParseInt(PageLabel).ok
Unexpected == TooFewItems \/ LabelNotANumber

HddReturned == pc = "fields"
EnabledButtons == {i \in 1..Len(buttons) : ~buttons[i].disabled}
Displayed(i) == ParseFloat(Remove(buttons[i].price, "$")).value

\* C5 as stated: the returned mapping has exactly one entry per option that is
\* not disabled, keyed by the option's value label and valued with the price
\* displayed after that option was activated; no disabled option is clicked.
C5_Original ==
    HddReturned =>
        /\ DOMAIN hdd_prices = {buttons[i].value : i \in EnabledButtons}
        /\ Cardinality(DOMAIN hdd_prices) = Cardinality(EnabledButtons)
        /\ \A i \in EnabledButtons : hdd_prices[buttons[i].value] = Displayed(i)
        /\ clicked = EnabledButtons

\* C5, amended: the returned mapping has exactly one entry per distinct value
\* label among the options that are not disabled, valued with the price
\* displayed after the last non-disabled option carrying that label was
\* activated; when the non-disabled options carry pairwise distinct labels this
\* is exactly one entry per non-disabled option.  No disabled option is clicked
\* and every non-disabled one is.
C5_OneEntryPerEnabledLabel ==
    HddReturned =>
        /\ DOMAIN hdd_prices = {buttons[i].value : i \in EnabledButtons}
        /\ \A i \in EnabledButtons :
              (\A j \in EnabledButtons : j > i => buttons[j].value # buttons[i].value)
                  => hdd_prices[buttons[i].value] = Displayed(i)
        /\ (\A i, j \in EnabledButtons : i # j => buttons[i].value # buttons[j].value)
              => Cardinality(DOMAIN hdd_prices) = Cardinality(EnabledButtons)
        /\ clicked = EnabledButtons

C5_Witness ==
    /\ HddReturned
    /\ Len(buttons) = 3
    /\ Cardinality(EnabledButtons) = 2
    /\ buttons[2].disabled
    /\ buttons[1].value # buttons[3].value
    /\ Cardinality(DOMAIN hdd_prices) = 2

\* C6: an intercepted click raises nothing and is followed, as the next call on
\* the browser, by a click on the same option; a price is read and recorded only
\* for the option whose click has just succeeded, under that option's label,
\* and after a successful click the next call on the browser is that read.
C6_RetrySameOptionThenRead ==
    [][ /\ lastEvent'.kind = "intercepted" =>
              /\ error' = NoError
              /\ pc' = "hdd_loop"
              /\ idx' = lastEvent'.button
        /\ lastEvent.kind = "intercepted" =>
              /\ lastEvent' \in {lastEvent, Event("clicked", lastEvent.button)}
              /\ prices' = prices
              /\ idx' = idx
        /\ lastEvent.kind = "clicked" =>
              /\ lastEvent' \in {lastEvent, Event("read", lastEvent.button)}
              /\ clicked' = clicked
        /\ (prices' # prices \/ (lastEvent'.kind = "read" /\ lastEvent' # lastEvent)) =>
              /\ lastEvent = Event("clicked", idx)
              /\ lastEvent' = Event("read", idx)
              /\ prices' = DictSet(prices, buttons[idx].value, Displayed(idx))
      ]_vars

C6_Witness ==
    /\ pc = "hdd_loop"
    /\ lastEvent = Event("read", 2)
    /\ clicked = {1, 2}
    /\ retried = {2}
    /\ Cardinality(DOMAIN prices) = 2

\* The extraction of a product card has raised: the card is still the head of
\* the cards to parse.
ProductFailed == error # NoError /\ todo # << >>

\* C7: once the extraction of a product has failed, the run only unwinds: no
\* further page is fetched, nothing is added to what was extracted,
\* write_products_to_csv is not entered and products.csv stays as it was before
\* the run (absent, or with its old content).
C7_ProductFailureAbortsRun ==
    /\ [](ProductFailed => (pc \in {"raising", "failed"} /\ csv = csv0))
    /\ [][ProductFailed =>
              /\ ProductFailed'
              /\ pc' = "failed"
              /\ fetchLog' = fetchLog
              /\ all_products' = all_products
              /\ csv' = csv]_vars

C7_Witness ==
    /\ pc = "failed"
    /\ ProductFailed
    /\ error = "TypeError"
    /\ Head(todo).rating = None
    /\ Len(fetchLog) = 2
    /\ Len(all_products) = 2
    /\ page_products # << >>
    /\ csv = csv0

Written == pc = "exit" /\ csv # None
Rows == csv[1]

\* C8: after write_products_to_csv the file holds the header row title,
\* description, price, rating, num_of_reviews, additional_info, url and then
\* one row per record, in collection order, each with the record's values in
\* that column order; the number of data rows is the size of the collection.
C8_HeaderThenOneRowPerRecord ==
    pc = "exit" =>
        /\ csv # None
        /\ Len(Rows) = 1 + Len(all_products)
        /\ Rows[1] = <<"title", "description", "price", "rating", "num_of_reviews",
                       "additional_info", "url">>
        /\ \A i \in 1..Len(all_products) :
              LET p == all_products[i] IN
              Rows[i + 1] = <<p.title, p.description, p.price, p.rating,
                              p.num_of_reviews, p.additional_info, p.url>>

C8_Witness ==
    /\ Written
    /\ csv0 # None
    /\ Len(all_products) = 2
    /\ all_products[1].title = "B"
    /\ all_products[2].title = "A"
    /\ Len(Rows) = 3

\* The last call on the browser was a click that was intercepted.
Retrying == lastEvent.kind = "intercepted"
Finished ==
    \/ pc = "failed"
    \/ pc = "done" /\ csv = Some(CsvRows(all_products))

WalkRuns == pc \notin {"main", "done", "failed"}

====
